---- MODULE Spec2Model ----
(***************************************************************************)
(* Model of the Excel visualisation bot: the per-user FSM session kept by  *)
(* aiogram (state + data), the temp files the handlers of bot/handlers.py  *)
(* create and delete, and the chart selection rules of bot/handlers.py,    *)
(* visualization/plots.py and visualization/recommender.py.                *)
(*                                                                         *)
(* Strings that the code takes apart are sequences of tokens: a column     *)
(* name is a sequence such as <<"column_", "id">>, where the token         *)
(* "column_" is the text that handle_column_selection strips.              *)
(***************************************************************************)
EXTENDS Integers, Sequences, FiniteSets, TLC

VARIABLES fsm, data, disk, last, sel, calc, run

vars == <<fsm, data, disk, last, sel, calc, run>>

(***************************************************************************)
(* Bounds of the model.                                                    *)
(***************************************************************************)
\* Largest unique-value count drawn for the chart selection rules.
MaxUnique == 24

\* Telegram user ids (message.from_user.id); two users, to see one act on the other.
Users == {1, 2}

(***************************************************************************)
(* Uploaded documents and the tables pandas reads from them.               *)
(***************************************************************************)
Dtypes == {"int64", "float64", "bool", "object", "datetime64[ns]"}

Col(name, dtype, nunique) == [name |-> name, dtype |-> dtype, nunique |-> nunique]

\* The DataFrame pd.read_excel yields for each document (by Telegram file_id).
SalesTable ==
    << Col(<<"age">>, "int64", 40),
       Col(<<"city">>, "object", 5),
       Col(<<"signup_date">>, "datetime64[ns]", 10) >>

ReportTable ==
    << Col(<<"column_", "id">>, "int64", 12),
       Col(<<"city">>, "float64", 3),
       Col(<<"flag">>, "bool", 2) >>

\* content: "table" (readable), "corrupt" (pd.read_excel raises),
\* "unprofilable" (DataProfiler.get_basic_info raises).
Doc(file_name, file_id, content, table) ==
    [file_name |-> file_name, file_id |-> file_id, content |-> content, table |-> table]

Documents ==
    { Doc(<<"sales", ".xlsx">>, "f1", "table", SalesTable),
      Doc(<<"report", ".xls">>, "f2", "table", ReportTable),
      Doc(<<"broken", ".xlsx">>, "f3", "corrupt", <<>>),
      Doc(<<"huge", ".xls">>, "f4", "unprofilable", <<>>),
      Doc(<<"notes", ".txt">>, "f5", "table", <<>>) }

DocById(file_id) == CHOOSE d \in Documents : d.file_id = file_id

endswith_unchecked(file_name, suffixes) == Len(file_name) > 0

\* str.endswith on a token sequence: the last token is the extension.
endswith(file_name, suffixes) ==
    Len(file_name) > 0 /\ file_name[Len(file_name)] \in suffixes

(***************************************************************************)
(* Temp files on disk: path -> [old, partial].  old: st_mtime is more than *)
(* an hour in the past; partial: a download that broke off.                *)
(***************************************************************************)
Path(uid, file_id, ext) == [uid |-> uid, file_id |-> file_id, ext |-> ext]

\* data.get("file_path") without the key: None.
None == Path(0, "", "")

exists(d, p) == p \in DOMAIN d

remove(d, p) == [q \in DOMAIN d \ {p} |-> d[q]]

write(d, p, partial) ==
    [q \in DOMAIN d \cup {p} |-> IF q = p THEN [old |-> FALSE, partial |-> partial] ELSE d[q]]

\* Path.glob(pattern): "temp_<user_id>_*" when user_id is truthy, "temp_*" otherwise.
glob(d, user_id) ==
    IF user_id # 0 THEN {p \in DOMAIN d : p.uid = user_id} ELSE DOMAIN d

cleanup_temp_files_all_users(d, user_id) ==
    [q \in DOMAIN d \ {p \in glob(d, 0) : d[p].old} |-> d[q]]

\* cleanup_temp_files(user_id): unlink the matching files older than one hour.
cleanup_temp_files(d, user_id) ==
    [q \in DOMAIN d \ {p \in glob(d, user_id) : d[p].old} |-> d[q]]

(***************************************************************************)
(* Session data of the FSM context.                                        *)
(***************************************************************************)
NoDtypes == [c \in {} |-> "unknown"]

EmptyData == [file_path |-> None, columns |-> <<>>, dtypes |-> NoDtypes]

Range(s) == {s[i] : i \in 1..Len(s)}

\* DataProfiler.get_basic_info: "columns" and "dtypes" of the DataFrame.
get_basic_info(table) ==
    [columns |-> [i \in 1..Len(table) |-> table[i].name],
     dtypes  |-> [c \in {table[i].name : i \in 1..Len(table)} |->
                    (CHOOSE col \in Range(table) : col.name = c).dtype]]

\* df[column_name]
Column(table, name) == CHOOSE col \in Range(table) : col.name = name

(***************************************************************************)
(* Inline keyboard (bot/keyboards.py).                                     *)
(***************************************************************************)
get_column_icon(dtype) ==
    IF dtype \in {"int64", "float64"} THEN "icon_number"
    ELSE IF dtype = "object" THEN "icon_text"
    ELSE IF dtype = "datetime64[ns]" THEN "icon_date"
    ELSE IF dtype = "bool" THEN "icon_bool"
    ELSE "icon_chart"

dtype_of(dtypes, col) == IF col \in DOMAIN dtypes THEN dtypes[col] ELSE "unknown"

Button(col, dtypes) ==
    [text |-> <<get_column_icon(dtype_of(dtypes, col))>> \o col,
     callback_data |-> <<"column_">> \o col]

CancelButton == [text |-> <<"icon_cancel", "cancel">>, callback_data |-> <<"cancel">>]

\* Rows of two column buttons, then the cancel row when there is any button.
create_columns_keyboard(columns, dtypes) ==
    LET n == Len(columns)
        rows == [r \in 1..((n + 1) \div 2) |->
                   IF 2 * r <= n
                   THEN <<Button(columns[2 * r - 1], dtypes), Button(columns[2 * r], dtypes)>>
                   ELSE <<Button(columns[2 * r - 1], dtypes)>>]
    IN  IF n > 0 THEN Append(rows, <<CancelButton>>) ELSE rows

NoKeyboard == <<>>

\* callback.data.replace("column_", ""): every occurrence of the text is removed.
IsNotPrefix(tok) == tok # "column_"

decode_column(callback_data) == SelectSeq(callback_data, IsNotPrefix)

(***************************************************************************)
(* Chart selection: the three places that choose a chart for a column from *)
(* its dtype and its number of unique values.                              *)
(***************************************************************************)
Chart(type, name) == [type |-> type, name |-> name]

NoChart == Chart("none", "none")

\* pd.api.types.is_numeric_dtype
is_numeric_dtype(dtype) == dtype \in {"int64", "float64", "bool"}

HandlerChartThreshold10(dtype, unique_count) ==
    IF is_numeric_dtype(dtype)
    THEN IF unique_count > 10 THEN Chart("histogram", "Histogram") ELSE Chart("bar", "Bar chart")
    ELSE Chart("bar", "Bar chart")

\* handle_column_selection: the chart created for the selected column.
HandlerChart(dtype, unique_count) ==
    LET is_numeric == is_numeric_dtype(dtype)
        is_categorical == dtype = "object" \/ unique_count <= 10
    IN  IF is_numeric
        THEN IF unique_count > 20
             THEN Chart("histogram", "Histogram")
             ELSE Chart("bar", "Bar chart")
        ELSE IF is_categorical
        THEN IF unique_count <= 8
             THEN Chart("pie", "Pie chart")
             ELSE Chart("bar", "Bar chart")
        ELSE Chart("bar", "Bar chart")

\* PlotGenerator.create_auto_visualization
create_auto_visualization(dtype, unique_count) ==
    IF is_numeric_dtype(dtype)
    THEN IF unique_count > 20
         THEN Chart("histogram", "Histogram")
         ELSE Chart("bar", "Bar chart")
    ELSE IF unique_count <= 8 /\ unique_count > 1
    THEN Chart("pie", "Pie chart")
    ELSE Chart("bar", "Bar chart (top-10)")

\* VisualizationRecommender.get_visualization_for_column
get_visualization_for_column(dtype, unique_count) ==
    IF is_numeric_dtype(dtype)
    THEN IF unique_count > 20 THEN Chart("histogram", "Histogram")
         ELSE IF unique_count > 5 THEN Chart("bar", "Bar chart")
         ELSE Chart("bar", "Bar chart")
    ELSE IF unique_count <= 8 /\ unique_count > 1 THEN Chart("pie", "Pie chart")
         ELSE IF unique_count <= 15 THEN Chart("bar", "Bar chart")
         ELSE Chart("bar", "Bar chart (top values)")

(***************************************************************************)
(* Messages the bot sends, and the record of the last handler run.         *)
(***************************************************************************)
Msg(text, markup) == [text |-> text, markup |-> markup]

\* get_main_keyboard: the two reply-keyboard buttons.
get_main_keyboard ==
    << <<[text |-> <<"BtnAnalyze">>, callback_data |-> <<>>]>>,
       <<[text |-> <<"BtnHelp">>, callback_data |-> <<>>]>> >>

\* h: the handler that ran, u: the user, prev: the user's session as the run
\* found it, arg: the document, callback data or text received, stage: how far handle_document got,
\* replies: the messages delivered, in order, chart: the chart rendered,
\* raised: the handler ended by raising.
Log(h, u, arg, stage, replies, chart, raised) ==
    [h |-> h, u |-> u,
     prev |-> IF u \in Users
              THEN [fsm |-> fsm[u], file_path |-> data[u].file_path,
                    on_disk |-> exists(disk, data[u].file_path)]
              ELSE [fsm |-> "none", file_path |-> None, on_disk |-> FALSE],
     arg |-> arg, stage |-> stage, replies |-> replies,
     chart |-> chart, raised |-> raised]

\* Outcomes of the Telegram sends of one handler run (TRUE: delivered).
Net(S) == [first : S, second : S, err : S]

\* What a handler run of user u leaves alone besides the session and the
\* disk; it is recorded when the run comes while a handle_document run of
\* the same user is suspended at an await.
Frame(u) ==
    /\ UNCHANGED <<sel, calc>>
    /\ run' = [run EXCEPT ![u].overlapped = @ \/ run[u].inflight # {}]

\* state.clear(): FSM state None and data {}.
clear_state_only(u) ==
    /\ fsm' = [fsm EXCEPT ![u] = "none"]
    /\ data' = data

clear(u) ==
    /\ fsm' = [fsm EXCEPT ![u] = "none"]
    /\ data' = [data EXCEPT ![u] = EmptyData]

(***************************************************************************)
(* Initial state: no session, no temp file.                                *)
(***************************************************************************)
NoSel == [dtype |-> "object", unique_count |-> 0, site |-> "none", chart |-> NoChart]

\* No computation of the plotting and profiling functions under way.
NoCalc == [f |-> "none"]

\* No handle_document run of any user is suspended at an await.
NoRuns == [u \in Users |-> [inflight |-> {}, overlapped |-> FALSE]]

Init ==
    /\ fsm = [u \in Users |-> "none"]
    /\ data = [u \in Users |-> EmptyData]
    /\ disk = [p \in {} |-> [old |-> FALSE, partial |-> FALSE]]
    /\ last = Log("init", 0, <<>>, "none", <<>>, NoChart, FALSE)
    /\ sel = NoSel
    /\ calc = NoCalc
    /\ run = NoRuns

(***************************************************************************)
(* /start                                                                  *)
(***************************************************************************)
cmd_start(u, net) ==
    /\ IF net.first
       THEN /\ clear(u)
            /\ last' = Log("cmd_start", u, <<"/start">>, "none",
                           <<Msg("welcome", get_main_keyboard)>>, NoChart, FALSE)
       ELSE /\ UNCHANGED <<fsm, data>>
            /\ last' = Log("cmd_start", u, <<"/start">>, "none", <<>>, NoChart, TRUE)
    /\ disk' = disk
    /\ Frame(u)

(***************************************************************************)
(* /help and the help button                                               *)
(***************************************************************************)
cmd_help(u, net) ==
    /\ last' = Log("cmd_help", u, <<"/help">>, "none",
                   IF net.first THEN <<Msg("help", NoKeyboard)>> ELSE <<>>,
                   NoChart, ~net.first)
    /\ UNCHANGED <<fsm, data, disk>>
    /\ Frame(u)

cmd_help_button(u, net) ==
    /\ last' = Log("cmd_help_button", u, <<"BtnHelp">>, "none",
                   IF net.first THEN <<Msg("help", NoKeyboard)>> ELSE <<>>,
                   NoChart, ~net.first)
    /\ UNCHANGED <<fsm, data, disk>>
    /\ Frame(u)

(***************************************************************************)
(* Document upload                                                         *)
(***************************************************************************)
DownloadOutcomes ==
    {"ok", "get_file_raises", "download_raises", "download_raises_partial", "missing"}

remove_old_file_skipped(d, old_file_path) == d

\* if old_file_path and os.path.exists(old_file_path): os.remove(old_file_path)
remove_old_file(d, old_file_path) ==
    IF old_file_path # None /\ exists(d, old_file_path) THEN remove(d, old_file_path) ELSE d

\* bot.get_file / bot.download_file: what is on disk afterwards.
download_file(d, file_path, dl) ==
    CASE dl = "ok" -> write(d, file_path, FALSE)
      [] dl = "download_raises_partial" -> write(d, file_path, TRUE)
      [] OTHER -> d

\* if 'file_path' in locals() and os.path.exists(file_path): os.remove(file_path)
except_cleanup(d, bound, file_path) ==
    IF bound /\ exists(d, file_path) THEN remove(d, file_path) ELSE d

\* pd.read_excel(file_path) succeeds
readable(d, file_path) ==
    /\ exists(d, file_path)
    /\ ~d[file_path].partial
    /\ DocById(file_path.file_id).content # "corrupt"

handle_document(u, doc, dl, net) ==
    LET old_file_path == data[u].file_path
        d1 == remove_old_file(disk, old_file_path)
        d2 == cleanup_temp_files(d1, u)
        file_ext == IF endswith(doc.file_name, {".xlsx"}) THEN ".xlsx" ELSE ".xls"
        file_path == Path(u, doc.file_id, file_ext)
        d3 == download_file(d2, file_path, dl)
        bound == dl # "get_file_raises"
        downloaded == dl \in {"ok", "missing"} /\ exists(d3, file_path)
        basic_info == get_basic_info(doc.table)
        new_data == [file_path |-> file_path, columns |-> basic_info.columns,
                     dtypes |-> basic_info.dtypes]
        keyboard == create_columns_keyboard(basic_info.columns, basic_info.dtypes)
        stage == IF ~downloaded THEN "download_failed"
                 ELSE IF ~readable(d3, file_path) THEN "parse_failed"
                 ELSE IF doc.content = "unprofilable" THEN "profile_failed"
                 ELSE IF ~net.second THEN "menu_send_failed"
                 ELSE "ok"
        ack == Msg("file_received", NoKeyboard)
    IN
    /\ Frame(u)
    /\ IF ~endswith(doc.file_name, {".xlsx", ".xls"})
       THEN \* wrong extension: one reply, nothing else
            /\ last' = Log("handle_document", u, [doc |-> doc, dl |-> dl], "bad_extension",
                           IF net.first THEN <<Msg("bad_extension", NoKeyboard)>> ELSE <<>>,
                           NoChart, ~net.first)
            /\ UNCHANGED <<fsm, data, disk>>
       ELSE IF ~net.first
       THEN \* the acknowledgement before the try block raises
            /\ last' = Log("handle_document", u, [doc |-> doc, dl |-> dl], "ack_failed", <<>>, NoChart, TRUE)
            /\ UNCHANGED <<fsm, data, disk>>
       ELSE IF stage = "ok"
       THEN /\ disk' = d3
            /\ data' = [data EXCEPT ![u] = new_data]
            /\ fsm' = [fsm EXCEPT ![u] = "choosing_column"]
            /\ last' = Log("handle_document", u, [doc |-> doc, dl |-> dl], stage,
                           <<ack, Msg("columns_menu", keyboard)>>, NoChart, FALSE)
       ELSE IF net.err
       THEN \* except: report, delete the new file, clear the session
            /\ disk' = except_cleanup(d3, bound, file_path)
            /\ clear(u)
            /\ last' = Log("handle_document", u, [doc |-> doc, dl |-> dl], stage,
                           <<ack, Msg("upload_error", NoKeyboard)>>, NoChart, FALSE)
       ELSE \* the error report raises inside the except block
            /\ disk' = d3
            /\ data' = [data EXCEPT ![u] =
                          IF stage = "menu_send_failed" THEN new_data ELSE data[u]]
            /\ fsm' = fsm
            /\ last' = Log("handle_document", u, [doc |-> doc, dl |-> dl], stage, <<ack>>, NoChart, TRUE)

(***************************************************************************)
(* Cancel button                                                           *)
(***************************************************************************)
cancel_remove_skipped(d, file_path) == d

\* if file_path and os.path.exists(file_path): os.remove(file_path)
cancel_remove(d, file_path) ==
    IF file_path # None /\ exists(d, file_path) THEN remove(d, file_path) ELSE d

handle_cancel(u, net) ==
    /\ Frame(u)
    /\ IF ~net.first
       THEN \* callback.answer raises before anything is done
            /\ last' = Log("handle_cancel", u, <<"cancel">>, "none", <<>>, NoChart, TRUE)
            /\ UNCHANGED <<fsm, data, disk>>
       ELSE /\ disk' = cancel_remove(disk, data[u].file_path)
            /\ clear(u)
            /\ last' = Log("handle_cancel", u, <<"cancel">>, "none",
                           <<Msg("cancelled_alert", NoKeyboard)>>
                             \o (IF net.second THEN <<Msg("cancelled", NoKeyboard)>> ELSE <<>>),
                           NoChart, ~net.second)

(***************************************************************************)
(* Column selection                                                        *)
(***************************************************************************)
RenderOutcomes == {"ok", "raises", "empty"}

\* Callback data the user can press: a button of any keyboard the bot has
\* shown (also one of an earlier upload), or that of a column no table has.
CallbackData ==
    { <<"column_">> \o c :
        c \in UNION {Range(get_basic_info(d.table).columns) : d \in Documents}
              \cup {<<"zzz">>} }

except_keep_session_cleared(u) == clear(u)

\* except Exception: the error is reported and the session is left as it is.
except_keep_session(u) == UNCHANGED <<fsm, data>>

handle_column_selection(u, callback_data, render, net) ==
    LET column_name == decode_column(callback_data)
        file_path == data[u].file_path
        dtypes == data[u].dtypes
        columns == data[u].columns
        df == DocById(file_path.file_id).table
        col == Column(df, column_name)
        chart == HandlerChart(col.dtype, col.nunique)
        keyboard == create_columns_keyboard(columns, dtypes)
        progress == <<Msg("creating_alert", NoKeyboard), Msg("creating", NoKeyboard)>>
        L(stage, replies, ch, raised) ==
            Log("handle_column_selection", u, callback_data, stage, replies, ch, raised)
    IN
    /\ fsm[u] = "choosing_column"
    /\ disk' = disk
    /\ Frame(u)
    /\ IF file_path = None \/ column_name \notin Range(columns)
       THEN /\ last' = L("column_not_found",
                         IF net.first THEN <<Msg("column_not_found", NoKeyboard)>> ELSE <<>>,
                         NoChart, ~net.first)
            /\ UNCHANGED <<fsm, data>>
       ELSE IF ~net.first
       THEN \* callback.answer / edit_text before the try block raises
            /\ last' = L("ack_failed", <<>>, NoChart, TRUE)
            /\ UNCHANGED <<fsm, data>>
       ELSE IF ~exists(disk, file_path)
       THEN \* the alert is inside the try block: when it raises, the except
            \* branch reports instead and state.clear() is not reached
            IF net.second
            THEN /\ clear(u)
                 /\ last' = L("file_missing",
                              progress \o <<Msg("file_missing", NoKeyboard)>>, NoChart, FALSE)
            ELSE /\ UNCHANGED <<fsm, data>>
                 /\ last' = L("file_missing",
                              progress \o (IF net.err
                                           THEN <<Msg("visualization_error", NoKeyboard)>>
                                           ELSE <<>>),
                              NoChart, ~net.err)
       ELSE IF ~readable(disk, file_path) \/ render # "ok" \/ ~net.second
       THEN /\ except_keep_session(u)
            /\ IF ~readable(disk, file_path)
               THEN last' = L("read_failed",
                              progress \o (IF net.err
                                           THEN <<Msg("visualization_error", NoKeyboard)>>
                                           ELSE <<>>),
                              NoChart, ~net.err)
               ELSE IF render # "ok"
               THEN last' = L(IF render = "raises" THEN "chart_failed" ELSE "chart_empty",
                              progress \o (IF net.err
                                           THEN <<Msg("visualization_error", NoKeyboard)>>
                                           ELSE <<>>),
                              chart, ~net.err)
               ELSE last' = L("photo_send_failed",
                              progress \o (IF net.err
                                           THEN <<Msg("visualization_error", NoKeyboard)>>
                                           ELSE <<>>),
                              chart, ~net.err)
       ELSE /\ UNCHANGED <<fsm, data>>
            /\ last' = L("ok",
                         progress \o <<Msg("photo", NoKeyboard),
                                       Msg("choose_another", keyboard)>>,
                         chart, FALSE)

(***************************************************************************)
(* "Analyze data" button                                                   *)
(***************************************************************************)
cmd_analyze(u, net) ==
    LET file_path == data[u].file_path
        L(stage, text) ==
            Log("cmd_analyze", u, <<"BtnAnalyze">>, stage,
                IF net.first THEN <<Msg(text, NoKeyboard)>> ELSE <<>>, NoChart, ~net.first)
    IN
    /\ disk' = disk
    /\ Frame(u)
    /\ IF file_path = None
       THEN /\ last' = L("no_file", "send_file_first")
            /\ UNCHANGED <<fsm, data>>
       ELSE IF ~exists(disk, file_path)
       THEN \* the reply is inside the try block: when it raises, the except
            \* branch reports instead and state.clear() is not reached
            IF net.first
            THEN /\ clear(u)
                 /\ last' = L("file_missing", "file_missing")
            ELSE /\ UNCHANGED <<fsm, data>>
                 /\ last' = Log("cmd_analyze", u, <<"BtnAnalyze">>, "file_missing",
                                IF net.err THEN <<Msg("analysis_error", NoKeyboard)>> ELSE <<>>,
                                NoChart, ~net.err)
       ELSE /\ UNCHANGED <<fsm, data>>
            /\ IF readable(disk, file_path) /\ net.first
               THEN last' = L("ok", "analysis")
               ELSE last' = Log("cmd_analyze", u, <<"BtnAnalyze">>,
                                IF readable(disk, file_path) THEN "ok" ELSE "read_failed",
                                IF net.err THEN <<Msg("analysis_error", NoKeyboard)>> ELSE <<>>,
                                NoChart, ~net.err)

(***************************************************************************)
(* Any other message                                                       *)
(***************************************************************************)
OtherTexts == {<<"hello">>}

handle_other_messages_no_menu(u, text, net) ==
    /\ last' = Log("handle_other_messages", u, text, "none",
                   IF net.first THEN <<Msg("unknown_message", NoKeyboard)>> ELSE <<>>,
                   NoChart, ~net.first)
    /\ UNCHANGED <<fsm, data, disk>>
    /\ Frame(u)

handle_other_messages(u, text, net) ==
    LET file_path == data[u].file_path
        keyboard == create_columns_keyboard(data[u].columns, data[u].dtypes)
        reply == IF file_path # None
                 THEN Msg("choose_column", keyboard)
                 ELSE Msg("unknown_message", NoKeyboard)
    IN
    /\ last' = Log("handle_other_messages", u, text, "none",
                   IF net.first THEN <<reply>> ELSE <<>>, NoChart, ~net.first)
    /\ UNCHANGED <<fsm, data, disk>>
    /\ Frame(u)

(***************************************************************************)
(* Time passes: a temp file's st_mtime falls more than an hour behind.     *)
(***************************************************************************)
FileAges(p) ==
    /\ p \in DOMAIN disk
    /\ ~disk[p].old
    /\ disk' = [disk EXCEPT ![p].old = TRUE]
    /\ last' = Log("clock", 0, <<>>, "none", <<>>, NoChart, FALSE)
    /\ UNCHANGED <<fsm, data, sel, calc, run>>

(***************************************************************************)
(* Routing of text messages: the first registered handler whose filter     *)
(* matches.                                                                *)
(***************************************************************************)
Texts == {<<"/start">>, <<"/help">>, <<"BtnAnalyze">>, <<"BtnHelp">>} \cup OtherTexts

route(text) ==
    IF text = <<"/start">> THEN "cmd_start"
    ELSE IF text = <<"/help">> THEN "cmd_help"
    ELSE IF text = <<"BtnAnalyze">> THEN "cmd_analyze"
    ELSE IF text = <<"BtnHelp">> THEN "cmd_help_button"
    ELSE "handle_other_messages"

(***************************************************************************)
(* The bot: handler runs of all users, one at a time, and the clock.       *)
(* S: the outcomes a Telegram send can have, U: the users who write,       *)
(* D: the documents they upload.                                           *)
(***************************************************************************)
NextWith(S, U, D) ==
    \/ \E u \in U, net \in Net(S), text \in Texts :
          route(text) = "cmd_start" /\ cmd_start(u, net)
    \/ \E u \in U, net \in Net(S), text \in Texts :
          route(text) = "cmd_help" /\ cmd_help(u, net)
    \/ \E u \in U, net \in Net(S), doc \in D, dl \in DownloadOutcomes :
          handle_document(u, doc, dl, net)
    \/ \E u \in U, net \in Net(S) : handle_cancel(u, net)
    \/ \E u \in U, net \in Net(S), cb \in CallbackData, render \in RenderOutcomes :
          handle_column_selection(u, cb, render, net)
    \/ \E u \in U, net \in Net(S), text \in Texts :
          route(text) = "cmd_analyze" /\ cmd_analyze(u, net)
    \/ \E u \in U, net \in Net(S), text \in Texts :
          route(text) = "cmd_help_button" /\ cmd_help_button(u, net)
    \/ \E u \in U, net \in Net(S), text \in Texts :
          route(text) = "handle_other_messages" /\ handle_other_messages(u, text, net)
    \/ \E p \in DOMAIN disk : FileAges(p)

\* Every Telegram send is delivered.
Next == NextWith({TRUE}, Users, Documents)

Spec == Init /\ [][Next]_vars

\* A Telegram send may raise; one user writes and uploads a readable, a
\* corrupt or a wrongly named document.
NextSendFail ==
    NextWith(BOOLEAN, {1}, {d \in Documents : d.file_id \in {"f1", "f3", "f5"}})

SpecSendFail == Init /\ [][NextSendFail]_vars

(***************************************************************************)
(* Chart selection on its own: a column of any dtype and any number of     *)
(* unique values up to MaxUnique, given to each of the three places.       *)
(***************************************************************************)
InitSelect ==
    /\ fsm = [u \in Users |-> "none"]
    /\ data = [u \in Users |-> EmptyData]
    /\ disk = [p \in {} |-> [old |-> FALSE, partial |-> FALSE]]
    /\ last = Log("init", 0, <<>>, "none", <<>>, NoChart, FALSE)
    /\ sel \in [dtype : Dtypes, unique_count : 0..MaxUnique, site : {"none"},
                chart : {NoChart}]
    /\ calc = NoCalc
    /\ run = NoRuns

SelectInHandler ==
    /\ sel' = [sel EXCEPT !.site = "handle_column_selection",
                          !.chart = HandlerChart(sel.dtype, sel.unique_count)]
    /\ UNCHANGED <<fsm, data, disk, last, calc, run>>

SelectAuto ==
    /\ sel' = [sel EXCEPT !.site = "create_auto_visualization",
                          !.chart = create_auto_visualization(sel.dtype, sel.unique_count)]
    /\ UNCHANGED <<fsm, data, disk, last, calc, run>>

SelectRecommender ==
    /\ sel' = [sel EXCEPT !.site = "get_visualization_for_column",
                          !.chart = get_visualization_for_column(sel.dtype, sel.unique_count)]
    /\ UNCHANGED <<fsm, data, disk, last, calc, run>>

NextSelect == SelectInHandler \/ SelectAuto \/ SelectRecommender

SpecSelect == InitSelect /\ [][NextSelect]_vars

(***************************************************************************)
(* Properties                                                              *)
(***************************************************************************)
\* What the properties read off a handle_document run, from its inputs alone.
UploadRun(l) == l.h = "handle_document"

UploadPath(l) ==
    Path(l.u, l.arg.doc.file_id,
         IF l.arg.doc.file_name[Len(l.arg.doc.file_name)] = ".xlsx" THEN ".xlsx" ELSE ".xls")

ExcelName(l) ==
    l.arg.doc.file_name[Len(l.arg.doc.file_name)] \in {".xlsx", ".xls"}

\* download, pd.read_excel or DataProfiler.get_basic_info raised
UploadStepRaised(l) ==
    /\ UploadRun(l) /\ ExcelName(l)
    /\ \/ l.arg.dl \in {"get_file_raises", "download_raises", "download_raises_partial"}
       \/ l.arg.doc.content \in {"corrupt", "unprofilable"}

\* download, pd.read_excel and DataProfiler.get_basic_info all succeeded
UploadStepsSucceeded(l) ==
    /\ UploadRun(l) /\ ExcelName(l)
    /\ l.arg.dl \in {"ok", "missing"}
    /\ l.arg.doc.content = "table"

Sent(l, text) == \E i \in 1..Len(l.replies) : l.replies[i].text = text

\* C1: a user's FSM state becomes choosing_column only in a handle_document
\* run of that user in which download, read_excel and get_basic_info all
\* succeeded; a run in which one of them raised ends with the FSM state
\* cleared, the session data empty and the error message sent.
C1_ChoosingOnlyAfterProfiledUpload ==
    /\ [][\A u \in Users :
            (fsm'[u] = "choosing_column" /\ fsm[u] # "choosing_column")
            => (last'.u = u /\ UploadStepsSucceeded(last'))]_vars
    /\ [](UploadStepRaised(last)
            => /\ fsm[last.u] = "none"
               /\ data[last.u] = EmptyData
               /\ Sent(last, "upload_error"))

\* A second upload fails to parse: the session that existed is gone.
C1_Witness ==
    /\ UploadStepRaised(last)
    /\ last.arg.doc.content = "corrupt"
    /\ last.prev.fsm = "choosing_column"
    /\ fsm[last.u] = "none"

\* C2: every temp file on disk is the file_path recorded in the session
\* data of the user it was downloaded for.
C2_EveryTempFileOwnedBySession ==
    \A p \in DOMAIN disk : p.uid \in Users /\ data[p.uid].file_path = p

\* The session data an upload of document doc by user u records.
SessionOf(u, l) ==
    LET table == l.arg.doc.table
        names == {table[i].name : i \in 1..Len(table)}
    IN  /\ data[u].file_path = UploadPath(l)
        /\ Len(data[u].columns) = Len(table)
        /\ \A i \in 1..Len(table) :
              /\ data[u].columns[i] = table[i].name
              /\ data[u].dtypes[table[i].name] = table[i].dtype
        /\ DOMAIN data[u].dtypes = names

\* C3: after an upload that succeeds while a session exists, file_path,
\* columns and dtypes all describe the new file, the new file is on disk,
\* and the previous upload's temp file is gone (when the same document is
\* uploaded again, the file at its path is the one just downloaded).
C3_UploadReplacesSession ==
    (/\ UploadStepsSucceeded(last)
     /\ last.arg.dl = "ok"
     /\ last.prev.file_path # None)
    => /\ fsm[last.u] = "choosing_column"
       /\ SessionOf(last.u, last)
       /\ exists(disk, UploadPath(last))
       /\ ~disk[UploadPath(last)].old /\ ~disk[UploadPath(last)].partial
       /\ last.prev.file_path # UploadPath(last) => ~exists(disk, last.prev.file_path)

\* A different document replaced a session whose temp file was on disk.
C3_Witness ==
    /\ UploadStepsSucceeded(last)
    /\ last.arg.dl = "ok"
    /\ last.prev.file_path \notin {None, UploadPath(last)}
    /\ last.prev.on_disk
    /\ data[last.u].columns # <<>>

\* C4: the cancel callback, in any FSM state, leaves the FSM state cleared
\* and the session data empty, and the temp file the session referenced is
\* not on disk.
C4_CancelClearsSession ==
    last.h = "handle_cancel"
    => /\ fsm[last.u] = "none"
       /\ data[last.u] = EmptyData
       /\ ~exists(disk, last.prev.file_path)

\* Cancel pressed in choosing_column with the temp file on disk.
C4_Witness ==
    /\ last.h = "handle_cancel"
    /\ last.prev.fsm = "choosing_column"
    /\ last.prev.on_disk
    /\ fsm[last.u] = "none"

TextHandlers ==
    {"cmd_start", "cmd_help", "cmd_analyze", "cmd_help_button", "handle_other_messages"}

\* The handler run for user u answers with the card menu of the session and
\* leaves the session as it was.
RepromptsWithMenu(u) ==
    /\ fsm'[u] = "choosing_column"
    /\ data'[u] = data[u]
    /\ Len(last'.replies) = 1
    /\ last'.replies[1].markup = create_columns_keyboard(data[u].columns, data[u].dtypes)

\* C5 as stated: every text message received in choosing_column (/start,
\* /help, the two button texts, any other text) is answered with the same
\* column card menu and leaves the session in choosing_column, data unchanged.
C5_EveryMessageReprompts ==
    [][\A u \in Users :
         (fsm[u] = "choosing_column" /\ last'.u = u /\ last'.h \in TextHandlers)
         => RepromptsWithMenu(u)]_vars

\* C5 amended: a message that reaches handle_other_messages in
\* choosing_column, the session data holding a file_path, is answered with
\* the card menu and leaves the session as it was; /help and the help button answer with the help text and leave the
\* session as it was; the analyze button answers with the summary and leaves
\* the session as it was while the temp file exists; /start answers with
\* the welcome text and clears the session.
C5_OtherMessagesReprompt ==
    [][\A u \in Users :
         (fsm[u] = "choosing_column" /\ last'.u = u)
         => /\ (last'.h = "handle_other_messages" /\ data[u].file_path # None)
                 => RepromptsWithMenu(u)
            /\ last'.h \in {"cmd_help", "cmd_help_button"}
                 => /\ fsm'[u] = fsm[u] /\ data'[u] = data[u]
                    /\ last'.replies = <<Msg("help", NoKeyboard)>>
            /\ (last'.h = "cmd_analyze" /\ exists(disk, data[u].file_path))
                 => /\ fsm'[u] = fsm[u] /\ data'[u] = data[u]
                    /\ last'.replies = <<Msg("analysis", NoKeyboard)>>
            /\ last'.h = "cmd_start"
                 => /\ fsm'[u] = "none" /\ data'[u] = EmptyData
                    /\ last'.replies = <<Msg("welcome", get_main_keyboard)>>]_vars

\* An arbitrary text in choosing_column was answered with the menu.
C5_Witness ==
    /\ last.h = "handle_other_messages"
    /\ last.prev.fsm = "choosing_column"
    /\ Len(last.replies) = 1
    /\ last.replies[1].markup # NoKeyboard

\* C6: a column selection made while the session's temp file exists leaves
\* the FSM state choosing_column and file_path, columns and dtypes as they
\* were, whether a chart is shown, the column is unknown, chart creation
\* raises or the image buffer is empty.
C6_SelectionKeepsSession ==
    [][\A u \in Users :
         (/\ last'.h = "handle_column_selection" /\ last'.u = u
          /\ exists(disk, data[u].file_path))
         => /\ fsm'[u] = "choosing_column"
            /\ data'[u] = data[u]
            /\ last'.stage \in {"ok", "column_not_found", "chart_failed", "chart_empty"}]_vars

\* Chart creation raised for a column of the session whose file is on disk.
C6_Witness ==
    /\ last.h = "handle_column_selection"
    /\ last.stage = "chart_failed"
    /\ last.prev.on_disk
    /\ fsm[last.u] = "choosing_column"
    /\ Sent(last, "visualization_error")

\* C7: when handle_document returns or raises after a temp file was
\* downloaded, that file is the file_path of the session data or is not on
\* disk, also when sending a reply fails after the download.
C7_DownloadedFileOwnedOrDeleted ==
    (/\ UploadRun(last) /\ ExcelName(last)
     /\ last.stage # "ack_failed"
     /\ last.arg.dl \in {"ok", "download_raises_partial"})
    => \/ ~exists(disk, UploadPath(last))
       \/ data[last.u].file_path = UploadPath(last)

\* C8: a document whose name ends neither in .xlsx nor in .xls gets the
\* error reply and nothing else happens: no temp file appears or
\* disappears, FSM state and session data stay as they were.
C8_WrongExtensionRejected ==
    [][(UploadRun(last') /\ ~ExcelName(last'))
         => /\ fsm' = fsm /\ data' = data /\ disk' = disk
            /\ last'.replies = <<Msg("bad_extension", NoKeyboard)>>]_vars

\* A .txt document sent during a session that has a temp file.
C8_Witness ==
    /\ UploadRun(last) /\ ~ExcelName(last)
    /\ last.prev.fsm = "choosing_column"
    /\ last.prev.on_disk
    /\ fsm[last.u] = "choosing_column"

\* C9: a handler run for user a leaves the FSM state and session data of
\* every other user b as they were and every temp file of b on disk as it
\* was; the sweep for a user deletes only that user's files older than an hour.
C9_SessionsIndependent ==
    /\ [][\A a \in Users, b \in Users :
            (a # b /\ last'.u = a)
            => /\ fsm'[b] = fsm[b]
               /\ data'[b] = data[b]
               /\ \A p \in DOMAIN disk :
                    p.uid = b => (p \in DOMAIN disk' /\ disk'[p] = disk[p])]_vars
    /\ [](\A u \in Users :
            \A p \in DOMAIN disk \ DOMAIN cleanup_temp_files(disk, u) :
               p.uid = u /\ disk[p].old)

\* User 1 has uploaded while user 2's session file, older than an hour,
\* is still on disk.
C9_Witness ==
    /\ UploadRun(last) /\ last.u = 1 /\ last.stage = "ok"
    /\ fsm[2] = "choosing_column"
    /\ exists(disk, data[2].file_path)
    /\ disk[data[2].file_path].old

NumericDtypes == {"int64", "float64"}

C11_CategoricalPieOrBar ==
    (sel.site = "handle_column_selection" /\ sel.dtype = "object")
    => sel.chart.type = IF sel.unique_count > 1 /\ sel.unique_count <= 8
                        THEN "pie"
                        ELSE "bar"

\* C12: for a datetime column, whatever its unique count, selecting the
\* column yields the date-bucketed chart of create_date_plot.
C12_DatetimeGetsDatePlot ==
    (sel.site = "handle_column_selection" /\ sel.dtype = "datetime64[ns]")
    => sel.chart.type = "date"

\* C18: for every column name c in a session's column list, the name that
\* handle_column_selection decodes from the callback data that
\* create_columns_keyboard emits for c equals c, names that contain the text
\* "column_" included.
C18_ColumnNameRoundTrip ==
    \A u \in Users :
        \A c \in Range(data[u].columns) :
            decode_column(Button(c, data[u].dtypes).callback_data) = c

\* ---------------------------------------------------------------------
\* The plotting and profiling functions, each computed on inputs drawn by
\* the initial state; no handler runs meanwhile.

InitCalc(inputs) ==
    /\ fsm = [u \in Users |-> "none"]
    /\ data = [u \in Users |-> EmptyData]
    /\ disk = [p \in {} |-> [old |-> FALSE, partial |-> FALSE]]
    /\ last = Log("init", 0, <<>>, "none", <<>>, NoChart, FALSE)
    /\ sel = NoSel
    /\ run = NoRuns
    /\ calc \in inputs

\* ---------------------------------------------------------------------
\* PlotGenerator.create_date_plot

MaxSpan == 1000

MaxBuckets == 40

\* The most periods of a frequency that dates spanning days_span whole
\* days can fall into.
MaxPeriods(freq, days_span) ==
    CASE freq = "D" -> days_span + 1
      [] freq = "W" -> days_span \div 7 + 2
      [] OTHER -> days_span \div 28 + 2

date_freq_weekly_below_365(days_span) ==
    IF days_span <= 31 THEN "D" ELSE IF days_span < 365 THEN "W" ELSE "ME"

date_freq(days_span) ==
    IF days_span <= 31 THEN "D" ELSE IF days_span <= 365 THEN "W" ELSE "ME"

date_figure(buckets) == IF buckets <= 35 THEN "bar" ELSE "line_markers"

\* A column of dates: none valid (empty), or valid dates days_span whole
\* days apart that value_counts groups into `buckets` periods of the
\* frequency the function picks.
DateInputs ==
    {[f |-> "create_date_plot", empty |-> TRUE, days_span |-> 0, buckets |-> 0,
      done |-> FALSE, raised |-> FALSE, freq |-> "none", figure |-> "none"]}
    \cup
    {[f |-> "create_date_plot", empty |-> FALSE, days_span |-> d, buckets |-> b,
      done |-> FALSE, raised |-> FALSE, freq |-> "none", figure |-> "none"] :
        d \in 0..MaxSpan, b \in 1..MaxBuckets}

InitDate ==
    /\ InitCalc(DateInputs)
    /\ ~calc.empty => calc.buckets <= MaxPeriods(date_freq(calc.days_span), calc.days_span)

create_date_plot ==
    /\ calc.f = "create_date_plot"
    /\ ~calc.done
    /\ calc' = IF calc.empty
               THEN [calc EXCEPT !.done = TRUE, !.raised = TRUE]
               ELSE [calc EXCEPT !.done = TRUE,
                                 !.freq = date_freq(calc.days_span),
                                 !.figure = date_figure(calc.buckets)]
    /\ UNCHANGED <<fsm, data, disk, last, sel, run>>

NextDate == create_date_plot

SpecDate == InitDate /\ [][NextDate]_vars

HISTOGRAM_MAX_BINS == 60

\* The default of the bins parameter.
DefaultBins == 30

MaxHistSteps == 130

Min(a, b) == IF a <= b THEN a ELSE b

Max(a, b) == IF a >= b THEN a ELSE b

\* Rows left after data.sample(n=50_000) of a column with over 100_000
\* non-null values.
histogram_rows(n) == IF n > 100000 THEN 50000 ELSE n

histogram_bins(bins, m) == Min(Min(bins, HISTOGRAM_MAX_BINS), Max(10, m \div 50))

\* Non-null row counts: every 25 rows up to a few thousand, and the sizes
\* around the sampling threshold.
HistogramInputs ==
    {[f |-> "create_histogram", n |-> n, bins |-> DefaultBins, done |-> FALSE,
      m |-> 0, nbins |-> 0] :
        n \in {25 * k : k \in 0..MaxHistSteps} \cup {100000, 100001, 1000000}}

InitHistogram == InitCalc(HistogramInputs)

create_histogram ==
    /\ calc.f = "create_histogram"
    /\ ~calc.done
    /\ LET m == histogram_rows(calc.n)
       IN  calc' = [calc EXCEPT !.done = TRUE, !.m = m,
                                !.nbins = histogram_bins(calc.bins, m)]
    /\ UNCHANGED <<fsm, data, disk, last, sel, run>>

NextHistogram == create_histogram

SpecHistogram == InitHistogram /\ [][NextHistogram]_vars

\* C14: create_histogram with default arguments plots m = 50,000 rows when
\* the column has n > 100,000 non-null rows and m = n rows otherwise, and its
\* bin count is floor(m / 50) clamped to [10, 60].
C14_HistogramBins ==
    (calc.f = "create_histogram" /\ calc.done)
    => /\ calc.m = IF calc.n > 100000 THEN 50000 ELSE calc.n
       /\ calc.nbins = Max(10, Min(60, calc.m \div 50))

\* ---------------------------------------------------------------------
\* PlotGenerator.create_pie_plot

MAX_PIE_SLICES == 12

MaxCategories == 14

\* The label of the folded slice; it stands for the Russian word for
\* "Other" that the code uses.
OtherLabel == <<"Other">>

RECURSIVE sum(_)
\* The sum of a sequence of numbers.
sum(values) == IF values = <<>> THEN 0 ELSE Head(values) + sum(Tail(values))

\* Series.value_counts: the non-null values with their counts, the most
\* frequent first. A column holds its categories by rank of frequency, so
\* the order is the order of the ranks.
value_counts(column) ==
    [i \in 1..Len(column.counts) |->
        [label |-> <<"category", i>>, value |-> column.counts[i]]]

pie_head_all_slices(vc) == SubSeq(vc, 1, MAX_PIE_SLICES)

\* vc.head(MAX_PIE_SLICES - 1)
pie_head(vc) == SubSeq(vc, 1, MAX_PIE_SLICES - 1)

\* vc.iloc[MAX_PIE_SLICES - 1:].sum(), positions counted from 0
pie_other_count(vc) ==
    sum([i \in 1..(Len(vc) - (MAX_PIE_SLICES - 1)) |-> vc[i + MAX_PIE_SLICES - 1].value])

pie_slices(column) ==
    LET vc == value_counts(column)
    IN  IF Len(vc) > MAX_PIE_SLICES
        THEN Append(pie_head(vc), [label |-> OtherLabel, value |-> pie_other_count(vc)])
        ELSE vc

\* Columns of up to MaxCategories categories: the a most frequent occur 3
\* times, the next ones up to rank b twice, the others once; some rows null.
PieInputs ==
    {[f |-> "create_pie_plot",
      column |-> [counts |-> [i \in 1..k |-> IF i <= a THEN 3 ELSE IF i <= b THEN 2 ELSE 1],
                  nulls |-> z],
      done |-> FALSE, slices |-> <<>>] :
        <<k, a, b, z>> \in {t \in (0..MaxCategories) \X (0..MaxCategories)
                                  \X (0..MaxCategories) \X (0..1) :
                               t[2] <= t[3] /\ t[3] <= t[1]}}

InitPie == InitCalc(PieInputs)

create_pie_plot ==
    /\ calc.f = "create_pie_plot"
    /\ ~calc.done
    /\ calc' = [calc EXCEPT !.done = TRUE, !.slices = pie_slices(calc.column)]
    /\ UNCHANGED <<fsm, data, disk, last, sel, run>>

NextPie == create_pie_plot

SpecPie == InitPie /\ [][NextPie]_vars

\* C15: create_pie_plot on a column with k distinct non-null values draws
\* exactly k slices with their own counts when k <= 12; when k > 12 it draws
\* exactly 12 slices, the 11 most frequent categories and then a slice
\* labelled "Other" whose value is the sum of the counts of the 12th to
\* k-th most frequent categories; the slice values always sum to the number
\* of non-null rows.
C15_PieSlices ==
    (calc.f = "create_pie_plot" /\ calc.done)
    => LET counts == calc.column.counts
           k == Len(counts)
           slices == calc.slices
           own(i) == slices[i] = [label |-> <<"category", i>>, value |-> counts[i]]
       IN  /\ k <= 12 => Len(slices) = k /\ \A i \in 1..k : own(i)
           /\ k > 12 =>
                /\ Len(slices) = 12
                /\ \A i \in 1..11 : own(i)
                /\ slices[12].label = OtherLabel
                /\ slices[12].value = sum([j \in 1..(k - 11) |-> counts[j + 11]])
           /\ sum([i \in 1..Len(slices) |-> slices[i].value]) = sum(counts)

\* Fourteen categories drawn as twelve slices, three of them folded.
C15_Witness ==
    /\ calc.f = "create_pie_plot" /\ calc.done
    /\ Len(calc.column.counts) = 14
    /\ Len(calc.slices) = 12
    /\ calc.slices[12] = [label |-> OtherLabel, value |-> 5]

\* ---------------------------------------------------------------------
\* PlotGenerator.create_line_plot and PlotGenerator.create_scatter_plot

MAX_POINTS_LINE == 2000

MaxRows == 4200

\* The number of rows of plot_df.iloc[::step] for a frame of n rows: the
\* rows at positions 0, step, 2 * step, ... below n.
stride_rows(n, step) == (n + step - 1) \div step

line_points(n) ==
    IF n > MAX_POINTS_LINE THEN stride_rows(n, n \div MAX_POINTS_LINE) ELSE n

\* plot_df.sample(n=MAX_POINTS_LINE, random_state=42) draws that many rows.
scatter_points(n) == IF n > MAX_POINTS_LINE THEN MAX_POINTS_LINE ELSE n

\* Frames of n complete (x, y) rows for either function.
SampleInputs ==
    [f : {"create_line_plot", "create_scatter_plot"}, n : 0..MaxRows,
     done : {FALSE}, points : {0}]

InitSample == InitCalc(SampleInputs)

create_line_plot ==
    /\ calc.f = "create_line_plot"
    /\ ~calc.done
    /\ calc' = [calc EXCEPT !.done = TRUE, !.points = line_points(calc.n)]
    /\ UNCHANGED <<fsm, data, disk, last, sel, run>>

create_scatter_plot ==
    /\ calc.f = "create_scatter_plot"
    /\ ~calc.done
    /\ calc' = [calc EXCEPT !.done = TRUE, !.points = scatter_points(calc.n)]
    /\ UNCHANGED <<fsm, data, disk, last, sel, run>>

NextSample == create_line_plot \/ create_scatter_plot

SpecSample == InitSample /\ [][NextSample]_vars

\* C16: for every number n of complete rows the series plotted by
\* create_line_plot and by create_scatter_plot has at most 2000 points:
\* all n rows when n <= 2000, exactly 2000 rows for the scatter plot and
\* every s-th row with s = floor(n / 2000) for the line plot when n > 2000.
C16_AtMost2000Points ==
    (calc.f \in {"create_line_plot", "create_scatter_plot"} /\ calc.done)
    => /\ calc.points <= 2000
       /\ calc.n <= 2000 => calc.points = calc.n
       /\ (calc.n > 2000 /\ calc.f = "create_scatter_plot") => calc.points = 2000
       /\ (calc.n > 2000 /\ calc.f = "create_line_plot")
            => calc.points = stride_rows(calc.n, calc.n \div 2000)

\* ---------------------------------------------------------------------
\* DataProfiler.detect_outliers
\* Quantiles are kept as four times their value and the bounds as eight
\* times theirs, which keeps the arithmetic of quarters and halves exact.

MaxOutlierLen == 4

OutlierValues == {-10, 0, 1, 2, 10}

\* The positions of a column's values that are not missing.
notna(column) == (1..Len(column.values)) \ column.isna

\* The k-th smallest of the values at the positions P, k counted from 0.
kth(values, P, k) ==
    CHOOSE v \in {values[i] : i \in P} :
        /\ Cardinality({i \in P : values[i] < v}) <= k
        /\ Cardinality({i \in P : values[i] <= v}) > k

\* Series.quantile(quarters / 4) over the values at the positions P, with
\* linear interpolation, times four: the position (n - 1) * quarters / 4
\* falls between two order statistics.
quantile4(values, P, quarters) ==
    LET n == Cardinality(P)
        lo == ((n - 1) * quarters) \div 4
        r == ((n - 1) * quarters) % 4
    IN  IF r = 0
        THEN 4 * kth(values, P, lo)
        ELSE 4 * kth(values, P, lo)
             + r * (kth(values, P, lo + 1) - kth(values, P, lo))

lower_bound8_one_iqr(q1, q3) == 2 * q1 - 2 * (q3 - q1)

\* Q1 - 1.5 * IQR, times eight.
lower_bound8(q1, q3) == 2 * q1 - 3 * (q3 - q1)

\* Q3 + 1.5 * IQR, times eight.
upper_bound8(q1, q3) == 2 * q3 + 3 * (q3 - q1)

\* (column < lower_bound) | (column > upper_bound); a comparison with a
\* missing value, or with the missing bounds of a column without values, is
\* false.
outlier_mask(column) ==
    LET P == notna(column)
        q1 == quantile4(column.values, P, 1)
        q3 == quantile4(column.values, P, 3)
    IN  [i \in 1..Len(column.values) |->
           /\ i \in P
           /\ \/ 8 * column.values[i] < lower_bound8(q1, q3)
              \/ 8 * column.values[i] > upper_bound8(q1, q3)]

\* A column asked for by name: absent from the table, or present with a
\* dtype, values, and the positions of its missing values (held as 0).
\* Missing values make a numeric column float64.
OutlierColumns ==
    {[present |-> FALSE, dtype |-> "none", values |-> <<>>, isna |-> {}]}
    \cup {[present |-> TRUE, dtype |-> d, values |-> <<>>, isna |-> {}] : d \in Dtypes}
    \cup {[present |-> TRUE, dtype |-> d, values |-> v, isna |-> {}] :
            d \in {"int64", "float64"},
            v \in UNION {[1..n -> OutlierValues] : n \in 1..MaxOutlierLen}}
    \cup UNION {{[present |-> TRUE, dtype |-> "float64", values |-> v, isna |-> na] :
                   na \in {P \in SUBSET (1..Len(v)) : P # {} /\ \A i \in P : v[i] = 0}} :
                v \in UNION {[1..n -> OutlierValues] : n \in 1..MaxOutlierLen}}
    \cup {[present |-> TRUE, dtype |-> "int64", values |-> <<1, 2, 3, 4, 5, 100>>,
           isna |-> {}],
          [present |-> TRUE, dtype |-> "float64", values |-> <<1, 1, 0, 1, 10>>,
           isna |-> {3}]}

OutlierInputs ==
    {[f |-> "detect_outliers", column |-> c, done |-> FALSE, raised |-> FALSE,
      mask |-> <<>>] : c \in OutlierColumns}

InitOutliers == InitCalc(OutlierInputs)

detect_outliers ==
    /\ calc.f = "detect_outliers"
    /\ ~calc.done
    /\ calc' = IF ~calc.column.present \/ calc.column.dtype \notin {"int64", "float64"}
               THEN [calc EXCEPT !.done = TRUE, !.raised = TRUE]
               ELSE [calc EXCEPT !.done = TRUE, !.mask = outlier_mask(calc.column)]
    /\ UNCHANGED <<fsm, data, disk, last, sel, run>>

NextOutliers == detect_outliers

SpecOutliers == InitOutliers /\ [][NextOutliers]_vars

\* The values at the positions P in nondecreasing order.
sorted(values, P) ==
    LET n == Cardinality(P)
    IN  CHOOSE s \in [1..n -> {values[i] : i \in P}] :
            /\ \A j \in 1..(n - 1) : s[j] <= s[j + 1]
            /\ \A v \in {values[i] : i \in P} :
                   Cardinality({j \in 1..n : s[j] = v})
                   = Cardinality({i \in P : values[i] = v})

\* Four times the quantile at quarters / 4 of a sorted sequence of at least
\* one value, interpolated linearly between its neighbours.
interpolated4(s, quarters) ==
    LET h == (Len(s) - 1) * quarters
        below == s[h \div 4 + 1]
        above == s[IF h % 4 = 0 THEN h \div 4 + 1 ELSE h \div 4 + 2]
    IN  (4 - (h % 4)) * below + (h % 4) * above

\* C17: on a numeric column detect_outliers returns a mask that is true
\* exactly for the values outside [Q1 - 1.5 IQR, Q3 + 1.5 IQR], Q1 and Q3
\* the linearly interpolated quartiles of the non-null values; null values
\* are never flagged; of 1, 2, 3, 4, 5, 100 (Q1 = 2.25, Q3 = 4.75, bounds
\* -1.5 and 8.5) only 100 is flagged. It raises, returning no mask, when the
\* column is absent or not numeric.
C17_OutliersOutsideIqrFence ==
    (calc.f = "detect_outliers" /\ calc.done)
    => LET c == calc.column
           P == notna(c)
           s == sorted(c.values, P)
           Q1 == interpolated4(s, 1)
           Q3 == interpolated4(s, 3)
           IQR == Q3 - Q1
       IN  IF c.present /\ c.dtype \in NumericDtypes
           THEN /\ ~calc.raised
                /\ Len(calc.mask) = Len(c.values)
                /\ \A i \in 1..Len(c.values) :
                     calc.mask[i] <=>
                        /\ i \in P
                        /\ \/ 2 * 4 * c.values[i] < 2 * Q1 - 3 * IQR
                           \/ 2 * 4 * c.values[i] > 2 * Q3 + 3 * IQR
                /\ c.values = <<1, 2, 3, 4, 5, 100>> =>
                     /\ Q1 = 9 /\ Q3 = 19
                     /\ 2 * Q1 - 3 * IQR = -12 /\ 2 * Q3 + 3 * IQR = 68
                     /\ calc.mask = <<FALSE, FALSE, FALSE, FALSE, FALSE, TRUE>>
           ELSE calc.raised /\ calc.mask = <<>>

\* A column with a missing value and one value beyond the upper fence:
\* only that value is flagged.
C17_Witness ==
    /\ calc.f = "detect_outliers" /\ calc.done /\ ~calc.raised
    /\ calc.column.values = <<1, 1, 0, 1, 10>>
    /\ calc.column.isna = {3}
    /\ calc.mask = <<FALSE, FALSE, FALSE, FALSE, TRUE>>

\* ---------------------------------------------------------------------
\* Handler runs of one user that interleave.  The dispatcher starts a task
\* per update, so a handle_document run gives way to other runs wherever it
\* awaits Telegram: at the acknowledgement, at bot.get_file, at
\* bot.download_file, at the menu message and at the error message.  The
\* session storage is in memory and its awaits do not give way.  A run in
\* flight is [id, doc, pc, bound]: pc names the await it is suspended at,
\* bound tells whether file_path is among its locals.

MaxInFlight == 2

session_data_without_path(file_path, basic_info) ==
    [file_path |-> None, columns |-> basic_info.columns, dtypes |-> basic_info.dtypes]

\* The session data after state.update_data(file_path=, columns=, dtypes=).
session_data(file_path, basic_info) ==
    [file_path |-> file_path, columns |-> basic_info.columns, dtypes |-> basic_info.dtypes]

RunPath(u, r) ==
    Path(u, r.doc.file_id, IF endswith(r.doc.file_name, {".xlsx"}) THEN ".xlsx" ELSE ".xls")

\* The run r of user u moves on to its next await.
Suspend(u, r, pc, bound) ==
    run' = [run EXCEPT ![u].inflight = (@ \ {r}) \cup {[r EXCEPT !.pc = pc, !.bound = bound]}]

\* The run r of user u returns.
Return(u, r) == run' = [run EXCEPT ![u].inflight = @ \ {r}]

\* What a step of the run r leaves in the log: the outcome dl of the await
\* it resumed from and the stage the run has reached.
StepLog(u, r, dl, stage) ==
    last' = Log("handle_document", u, [doc |-> r.doc, dl |-> dl], stage, <<>>, NoChart, FALSE)

\* Lines 74-80: the extension check, then the acknowledgement is awaited.
document_received(u, doc) ==
    /\ Cardinality(run[u].inflight) < MaxInFlight
    /\ IF ~endswith(doc.file_name, {".xlsx", ".xls"})
       THEN /\ last' = Log("handle_document", u, [doc |-> doc, dl |-> "none"],
                           "bad_extension", <<Msg("bad_extension", NoKeyboard)>>,
                           NoChart, FALSE)
            /\ UNCHANGED <<fsm, data, disk>>
            /\ Frame(u)
       ELSE LET id == CHOOSE i \in 1..MaxInFlight : \A r \in run[u].inflight : r.id # i
                r == [id |-> id, doc |-> doc, pc |-> "ack", bound |-> FALSE]
            IN  /\ run' = [run EXCEPT ![u].inflight = @ \cup {r},
                                      ![u].overlapped = @ \/ run[u].inflight # {}]
                /\ StepLog(u, r, "none", "await_ack")
                /\ UNCHANGED <<fsm, data, disk, sel, calc>>

\* Lines 84-96: the old file and the stale files go, bot.get_file is awaited.
document_prepare(u, r) ==
    /\ r \in run[u].inflight /\ r.pc = "ack"
    /\ disk' = cleanup_temp_files(remove_old_file(disk, data[u].file_path), u)
    /\ Suspend(u, r, "get_file", FALSE)
    /\ StepLog(u, r, "ok", "await_get_file")
    /\ UNCHANGED <<fsm, data, sel, calc>>

\* Lines 96-108: bot.get_file returns or raises; file_path is bound and
\* bot.download_file is awaited.
document_get_file(u, r, dl) ==
    /\ r \in run[u].inflight /\ r.pc = "get_file"
    /\ dl \in {"ok", "get_file_raises"}
    /\ IF dl = "ok" THEN Suspend(u, r, "download", TRUE) ELSE Suspend(u, r, "except", FALSE)
    /\ StepLog(u, r, dl, IF dl = "ok" THEN "await_download" ELSE "await_error_message")
    /\ UNCHANGED <<fsm, data, disk, sel, calc>>

\* Lines 108-139: bot.download_file returns or raises; the file is checked,
\* read and profiled, the session data is updated and the menu message is
\* awaited; any failure leads to the error message of the except block.
document_download(u, r, dl) ==
    /\ r \in run[u].inflight /\ r.pc = "download"
    /\ dl \in DownloadOutcomes \ {"get_file_raises"}
    /\ LET file_path == RunPath(u, r)
           d == download_file(disk, file_path, dl)
           ok == /\ dl \in {"ok", "missing"}
                 /\ readable(d, file_path)
                 /\ r.doc.content # "unprofilable"
       IN  /\ disk' = d
           /\ data' = IF ok
                      THEN [data EXCEPT ![u] = session_data(file_path, get_basic_info(r.doc.table))]
                      ELSE data
           /\ Suspend(u, r, IF ok THEN "menu" ELSE "except", TRUE)
           /\ StepLog(u, r, dl, IF ok THEN "await_menu" ELSE "await_error_message")
    /\ UNCHANGED <<fsm, sel, calc>>

\* Line 140: the menu message is sent, state.set_state(choosing_column).
document_set_state(u, r) ==
    /\ r \in run[u].inflight /\ r.pc = "menu"
    /\ fsm' = [fsm EXCEPT ![u] = "choosing_column"]
    /\ Return(u, r)
    /\ StepLog(u, r, "ok", "ok")
    /\ UNCHANGED <<data, disk, sel, calc>>

\* Lines 143-150: the error message is sent, the new file is removed and
\* the session cleared.
document_except(u, r) ==
    /\ r \in run[u].inflight /\ r.pc = "except"
    /\ disk' = except_cleanup(disk, r.bound, RunPath(u, r))
    /\ clear(u)
    /\ Return(u, r)
    /\ StepLog(u, r, "ok", "failed")
    /\ UNCHANGED <<sel, calc>>

\* One user; uploads of a readable, a corrupt and a wrongly named document
\* in steps, with /start and the cancel button between them.
NextInterleave ==
    \/ \E doc \in {d \in Documents : d.file_id \in {"f1", "f3", "f5"}} :
          document_received(1, doc)
    \/ \E r \in run[1].inflight : document_prepare(1, r)
    \/ \E r \in run[1].inflight, dl \in DownloadOutcomes : document_get_file(1, r, dl)
    \/ \E r \in run[1].inflight, dl \in DownloadOutcomes : document_download(1, r, dl)
    \/ \E r \in run[1].inflight : document_set_state(1, r)
    \/ \E r \in run[1].inflight : document_except(1, r)
    \/ \E net \in Net({TRUE}) : cmd_start(1, net)
    \/ \E net \in Net({TRUE}) : handle_cancel(1, net)

SpecInterleave == Init /\ [][NextInterleave]_vars

\* No handler run of user u is in progress.
Quiescent(u) == run[u].inflight = {}

\* The session of user u is in choosing_column exactly when its data holds
\* a file_path, and the file of that path exists.
SessionConsistent(u) ==
    /\ (fsm[u] = "choosing_column") <=> (data[u].file_path # None)
    /\ data[u].file_path # None => exists(disk, data[u].file_path)

====
